---- MODULE Spec2Model ----
(***************************************************************************)
(* State-machine model of the Express API of src/unnamed/part_000 (and its *)
(* earlier version src/back/server.js): signup, login, the JWT gate, the   *)
(* document reads, the upload pipeline and the jargon simplification.      *)
(*                                                                         *)
(* Node runs one handler at a time; a handler gives up control only at an  *)
(* await.  Every action below is therefore one synchronous stretch of a    *)
(* handler: from the arrival of the request (or from the completion of the *)
(* awaited call) to the next await or to the end of the handler.           *)
(***************************************************************************)
EXTENDS Integers, Sequences, FiniteSets, TLC

VARIABLES users, documents, files, now, reqs

vars == <<users, documents, files, now, reqs>>

(***************************************************************************)
(* Bounds of the model.                                                    *)
(***************************************************************************)
MaxAuthReqs == 2
MaxDocReqs == 2
MaxJargonReqs == 1
MaxTicks == 2
TickSeconds == 1800

(***************************************************************************)
(* Program constants.                                                      *)
(***************************************************************************)
ExpiresIn == 3600

JWT_SECRET == "process.env.JWT_SECRET"

\* JavaScript's undefined, for the string-valued inputs of a request body.
Undef == "<undefined>"

Emails == {"a@x", "c@x"}
Passwords == {"p1", "bad", Undef}

(***************************************************************************)
(* bcryptjs: hash and compare throw on a non-string argument.              *)
(***************************************************************************)
BcryptThrows(password) == password = Undef

BcryptHash(password) == <<"bcrypt", password>>

BcryptCompare(password, hashed) == hashed = BcryptHash(password)

(***************************************************************************)
(* jsonwebtoken.  A word of an Authorization header is a record; s tells   *)
(* a JWT from any other text, key is the secret the JWT was signed with.   *)
(***************************************************************************)
Word(s, id, iat, exp, key) == [s |-> s, id |-> id, iat |-> iat, exp |-> exp, key |-> key]

Undefined == Word("undefined", 0, 0, 0, "")
Bearer == Word("Bearer", 0, 0, 0, "")
Garbage == Word("garbage", 0, 0, 0, "")

JwtSign(id, t) == Word("jwt", id, t, t + ExpiresIn, JWT_SECRET)

JwtVerifyThrows(token, t) ==
    \/ token.s # "jwt"
    \/ token.key # JWT_SECRET
    \/ t >= token.exp

\* req.headers.authorization?.split(" ")[1]
HeaderToken(hdr) ==
    IF ~hdr.present THEN Undefined
    ELSE IF Len(hdr.words) >= 2 THEN hdr.words[2]
    ELSE Undefined

NoHeader == [present |-> FALSE, words |-> <<>>]
Header(words) == [present |-> TRUE, words |-> words]

(***************************************************************************)
(* Responses.  type "json" is res.json / res.status().json; "default" is   *)
(* the answer of Express' built-in error handler (not JSON); "none" is no  *)
(* answer at all.                                                          *)
(***************************************************************************)
Resp(status, type, message, data) ==
    [status |-> status, type |-> type, message |-> message, data |-> data]

NoResp == Resp(0, "none", "", {})
Json(status, message) == Resp(status, "json", message, {})
JsonData(status, message, data) == Resp(status, "json", message, data)
DefaultError == Resp(500, "default", "", {})

\* authMiddleware without the verification: whatever token is there passes.
AuthMiddleware_Unverified(hdr, t) ==
    LET token == HeaderToken(hdr)
    IN  IF token.s = "undefined"
        THEN [next |-> TRUE, user |-> 0, resp |-> NoResp]
        ELSE [next |-> TRUE, user |-> token.id, resp |-> NoResp]

(***************************************************************************)
(* authMiddleware: the verdict for a header at time t.                     *)
(***************************************************************************)
AuthMiddleware(hdr, t) ==
    LET token == HeaderToken(hdr)
    IN  IF token.s = "undefined"
        THEN [next |-> FALSE, user |-> 0,
              resp |-> Json(401, "No token provided, authorization denied")]
        ELSE IF JwtVerifyThrows(token, t)
        THEN [next |-> FALSE, user |-> 0, resp |-> Json(401, "Token is not valid")]
        ELSE [next |-> TRUE, user |-> token.id, resp |-> NoResp]

(***************************************************************************)
(* The stores as construction leaves them in a deployment that has been    *)
(* used before: two registered users, one document each.                   *)
(***************************************************************************)
EmptyMap == [k \in {} |-> Undef]

UserRec(id, email, password) == [id |-> id, email |-> email, password |-> password]

DocRec(userId, status, classification, jargonsFound) ==
    [userId |-> userId, status |-> status, classification |-> classification,
     jargonsFound |-> jargonsFound]

InitUsers == {UserRec(1, "a@x", BcryptHash("p1")), UserRec(2, "b@x", BcryptHash("p2"))}

InitDocuments == (3 :> DocRec(1, "analyzed", "NDA", EmptyMap))
                 @@ (4 :> DocRec(2, "error", Undef, EmptyMap))

(***************************************************************************)
(* A request in flight: its inputs, the handler's locals, the position of  *)
(* the handler (pc names the call it awaits) and the response sent.        *)
(* touched collects what the request has used: "store", "file",            *)
(* "outbound".  tmp* are the fields of the upload handler's tempDocument   *)
(* (tmpId = 0: null; tmpInvalid: a value assigned to it did not cast).     *)
(* err is the error the upload's catch block caught.  outage and           *)
(* unlinkThrew record that a save of the request found the store out of    *)
(* reach, and that an fs.unlinkSync of the request threw.                  *)
(***************************************************************************)
NoErr == [code |-> "", hasResponse |-> FALSE, dataError |-> ""]

IdleReq ==
    [kind |-> "idle", pc |-> "idle", hdr |-> NoHeader, user |-> 0,
     email |-> Undef, password |-> Undef, found |-> UserRec(0, Undef, <<>>),
     docParam |-> 0, file |-> [present |-> FALSE, mimetype |-> "", size |-> 0],
     text |-> Undef,
     payload |-> [success |-> FALSE, classification |-> Undef, castable |-> TRUE,
                  hasAnalysis |-> FALSE, hasFound |-> FALSE, found |-> EmptyMap],
     tmpId |-> 0, tmpStatus |-> Undef, tmpClassification |-> Undef,
     tmpJargons |-> EmptyMap, tmpInvalid |-> FALSE,
     err |-> NoErr, outage |-> FALSE, unlinkThrew |-> FALSE,
     touched |-> {}, resp |-> NoResp, nresp |-> 0]

ReqIds == 1 .. 3

\* The ObjectId a request's handler generates: unlike every stored one and
\* unlike every other request's.
NewOid(r) == Cardinality(InitUsers) + Cardinality(DOMAIN InitDocuments) + r

Idle(r) == reqs[r].kind = "idle"

\* Requests take the slots in order.
CanStart(r) == Idle(r) /\ (IF r = 1 THEN TRUE ELSE ~Idle(r - 1))

Awaiting(r, kind, pc) == reqs[r].kind = kind /\ reqs[r].pc = pc

Done(r) == reqs[r].pc = "done"

\* The handler has ended: its locals are gone (of tempDocument the id is
\* kept, to tell which document the request made).
Ended(q) ==
    [q EXCEPT !.pc = "done", !.found = IdleReq.found, !.err = NoErr,
              !.tmpStatus = Undef, !.tmpClassification = Undef,
              !.tmpJargons = EmptyMap, !.tmpInvalid = FALSE]

\* res.status(..).json(..) / res.json(..), ending the handler.
Respond(q, resp) ==
    [Ended(q) EXCEPT !.resp = resp, !.nresp = q.nresp + 1]

\* An error nothing catches: Express 4 leaves the request unanswered,
\* Express 5 hands the rejection to its built-in error handler.
Escapes(q) ==
    {Ended(q), Respond(q, DefaultError)}

Touch(q, what) == [q EXCEPT !.touched = q.touched \cup what]

Init ==
    /\ users = InitUsers
    /\ documents = InitDocuments
    /\ files = {}
    /\ now = 0
    /\ reqs = [r \in ReqIds |-> IdleReq]

(***************************************************************************)
(* The clock, which only jwt.sign and jwt.verify read.                     *)
(***************************************************************************)
Tick ==
    /\ now < MaxTicks * TickSeconds
    /\ now' = now + TickSeconds
    /\ UNCHANGED <<users, documents, files, reqs>>

(***************************************************************************)
(* POST /signup                                                            *)
(***************************************************************************)
StartSignup(r) ==
    /\ CanStart(r)
    /\ \E email \in Emails, password \in Passwords :
         reqs' = [reqs EXCEPT ![r] =
                    Touch([IdleReq EXCEPT !.kind = "signup", !.pc = "findOne",
                                          !.email = email, !.password = password],
                          {"store"})]
    /\ UNCHANGED <<users, documents, files, now>>

\* await User.findOne({ email }) returns or throws; then the duplicate check
\* and the call of bcrypt.hash.
SignupFindOneDone(r) ==
    /\ Awaiting(r, "signup", "findOne")
    /\ LET q == reqs[r]
           exists == \E u \in users : u.email = q.email
       IN  \/ reqs' = [reqs EXCEPT ![r] = Respond(q, Json(500, "store error"))]
           \/ reqs' = [reqs EXCEPT ![r] =
                IF exists THEN Respond(q, Json(400, "User already exists"))
                ELSE IF BcryptThrows(q.password)
                THEN Respond(q, Json(500, "Illegal arguments"))
                ELSE [q EXCEPT !.pc = "hash"]]
    /\ UNCHANGED <<users, documents, files, now>>

\* await bcrypt.hash(password, 10) returns; User.create is called.
SignupHashDone(r) ==
    /\ Awaiting(r, "signup", "hash")
    /\ reqs' = [reqs EXCEPT ![r] = [reqs[r] EXCEPT !.pc = "create"]]
    /\ UNCHANGED <<users, documents, files, now>>

\* What the unique index on email lets through.
UniqueIndexRejects(email) == \E u \in users : u.email = email

\* await User.create(..) returns or throws (the store is unreachable, or the
\* unique index rejects the insert with E11000).
SignupCreateDone(r) ==
    /\ Awaiting(r, "signup", "create")
    /\ LET q == reqs[r]
       IN  \/ /\ reqs' = [reqs EXCEPT ![r] = Respond(q, Json(500, "store error"))]
              /\ UNCHANGED users
           \/ /\ UniqueIndexRejects(q.email)
              /\ reqs' = [reqs EXCEPT ![r] =
                            Respond(q, Json(500, "E11000 duplicate key error"))]
              /\ UNCHANGED users
           \/ /\ ~UniqueIndexRejects(q.email)
              /\ users' = users \cup {UserRec(NewOid(r), q.email, BcryptHash(q.password))}
              /\ reqs' = [reqs EXCEPT ![r] =
                            Respond([q EXCEPT !.user = NewOid(r)],
                                    Json(201, "User registered successfully"))]
    /\ UNCHANGED <<documents, files, now>>

(***************************************************************************)
(* POST /login                                                             *)
(***************************************************************************)
StartLogin(r) ==
    /\ CanStart(r)
    /\ \E email \in Emails, password \in Passwords :
         reqs' = [reqs EXCEPT ![r] =
                    Touch([IdleReq EXCEPT !.kind = "login", !.pc = "findOne",
                                          !.email = email, !.password = password],
                          {"store"})]
    /\ UNCHANGED <<users, documents, files, now>>

\* await User.findOne({ email }) returns or throws; then bcrypt.compare is
\* called with the stored hash.
LoginFindOneDone(r) ==
    /\ Awaiting(r, "login", "findOne")
    /\ LET q == reqs[r]
           matches == {u \in users : u.email = q.email}
       IN  \/ reqs' = [reqs EXCEPT ![r] = Respond(q, Json(500, "store error"))]
           \/ /\ matches = {}
              /\ reqs' = [reqs EXCEPT ![r] = Respond(q, Json(400, "Invalid credentials"))]
           \/ \E user \in matches :
                reqs' = [reqs EXCEPT ![r] =
                   IF BcryptThrows(q.password)
                   THEN Respond(q, Json(500, "Illegal arguments"))
                   ELSE [q EXCEPT !.pc = "compare", !.found = user]]
    /\ UNCHANGED <<users, documents, files, now>>

\* await bcrypt.compare(..) returns; the token is signed and sent.
LoginCompareDone(r) ==
    /\ Awaiting(r, "login", "compare")
    /\ LET q == reqs[r]
           ok == BcryptCompare(q.password, q.found.password)
       IN  reqs' = [reqs EXCEPT ![r] =
              IF ~ok THEN Respond(q, Json(400, "Invalid credentials"))
              ELSE Respond(q, JsonData(200, "Login successful",
                                       {JwtSign(q.found.id, now)}))]
    /\ UNCHANGED <<users, documents, files, now>>

AuthReqIds == 1 .. MaxAuthReqs

NextAuth ==
    \/ Tick
    \/ \E r \in AuthReqIds : StartSignup(r)
    \/ \E r \in AuthReqIds : SignupFindOneDone(r)
    \/ \E r \in AuthReqIds : SignupHashDone(r)
    \/ \E r \in AuthReqIds : SignupCreateDone(r)
    \/ \E r \in AuthReqIds : StartLogin(r)
    \/ \E r \in AuthReqIds : LoginFindOneDone(r)
    \/ \E r \in AuthReqIds : LoginCompareDone(r)

SpecAuth == Init /\ [][NextAuth]_vars

(***************************************************************************)
(* Authorization headers a client can send.  Only login signs with         *)
(* JWT_SECRET, so the validly signed tokens are those of earlier logins:   *)
(* one per user still valid, one of user 1 that has expired.               *)
(***************************************************************************)
Token1 == JwtSign(1, 0 - TickSeconds)
Token2 == JwtSign(2, 0 - TickSeconds)
Expired == JwtSign(1, 0 - ExpiresIn)
Forged == Word("jwt", 1, 0, ExpiresIn, "not the secret")

BadHeaders ==
    {NoHeader, Header(<<Bearer>>), Header(<<Bearer, Garbage>>),
     Header(<<Bearer, Forged>>), Header(<<Bearer, Expired>>)}

GoodHeaders == {Header(<<Bearer, Token1>>), Header(<<Bearer, Token2>>)}

Headers == BadHeaders \cup GoodHeaders

\* A protected route: the request after authMiddleware, which has answered
\* it or has set req.user and called next().
Protected(kind, hdr) ==
    LET a == AuthMiddleware(hdr, now)
        q == [IdleReq EXCEPT !.kind = kind, !.hdr = hdr, !.user = a.user]
    IN  IF ~a.next THEN Respond(q, a.resp) ELSE q

\* authMiddleware did not call next(): the rest of the chain does not run.
Rejected(q) == q.pc = "done"

(***************************************************************************)
(* GET /profile                                                            *)
(***************************************************************************)
ProfileEntered(q) == Touch([q EXCEPT !.pc = "findById"], {"store"})

StartProfile(r) ==
    /\ CanStart(r)
    /\ \E hdr \in Headers :
         LET q == Protected("profile", hdr)
         IN  reqs' = [reqs EXCEPT ![r] = IF Rejected(q) THEN q ELSE ProfileEntered(q)]
    /\ UNCHANGED <<users, documents, files, now>>

\* await User.findById(req.user).select("-password")
ProfileFindByIdDone(r) ==
    /\ Awaiting(r, "profile", "findById")
    /\ LET q == reqs[r]
           matches == {u \in users : u.id = q.user}
       IN  \/ reqs' = [reqs EXCEPT ![r] = Respond(q, Json(500, "store error"))]
           \/ reqs' = [reqs EXCEPT ![r] =
                IF matches = {} THEN Respond(q, Json(404, "User not found"))
                ELSE Respond(q, JsonData(200, "",
                        {[id |-> u.id, email |-> u.email] : u \in matches}))]
    /\ UNCHANGED <<users, documents, files, now>>

(***************************************************************************)
(* GET /documents and GET /documents/:id.  The data of the response is the *)
(* set of ids of the documents returned.                                   *)
(***************************************************************************)
ListEntered(q) == Touch([q EXCEPT !.pc = "find"], {"store"})

StartListDocuments(r) ==
    /\ CanStart(r)
    /\ \E hdr \in Headers :
         LET q == Protected("list", hdr)
         IN  reqs' = [reqs EXCEPT ![r] = IF Rejected(q) THEN q ELSE ListEntered(q)]
    /\ UNCHANGED <<users, documents, files, now>>

\* Document.find({ userId: req.user })
FindByUser(userId) == {d \in DOMAIN documents : documents[d].userId = userId}

ListDocumentsFindDone(r) ==
    /\ Awaiting(r, "list", "find")
    /\ LET q == reqs[r]
       IN  \/ reqs' = [reqs EXCEPT ![r] = Respond(q, Json(500, "store error"))]
           \/ reqs' = [reqs EXCEPT ![r] = Respond(q, JsonData(200, "", FindByUser(q.user)))]
    /\ UNCHANGED <<users, documents, files, now>>

\* Ids a client asks for: the stored documents' (its own, another user's)
\* and the id the first request's upload gives its document (no document's
\* until that upload has saved it).
DocParams == DOMAIN InitDocuments \cup {NewOid(1)}

StartGetDocument(r) ==
    /\ CanStart(r)
    /\ \E hdr \in Headers, id \in DocParams :
         LET entered(q) == Touch([q EXCEPT !.pc = "findOne", !.docParam = id], {"store"})
             p == Protected("get", hdr)
         IN  reqs' = [reqs EXCEPT ![r] = IF Rejected(p) THEN p ELSE entered(p)]
    /\ UNCHANGED <<users, documents, files, now>>

\* The lookup by _id alone, without the userId filter.
FindOneForUser_AnyOwner(id, userId) ==
    {d \in DOMAIN documents : d = id}

\* Document.findOne({ _id: req.params.id, userId: req.user })
FindOneForUser(id, userId) ==
    {d \in DOMAIN documents : d = id /\ documents[d].userId = userId}

GetDocumentFindOneDone(r) ==
    /\ Awaiting(r, "get", "findOne")
    /\ LET q == reqs[r]
           document == FindOneForUser(q.docParam, q.user)
       IN  \/ reqs' = [reqs EXCEPT ![r] = Respond(q, Json(500, "store error"))]
           \/ reqs' = [reqs EXCEPT ![r] =
                IF document = {} THEN Respond(q, Json(404, "Document not found"))
                ELSE Respond(q, JsonData(200, "", document))]
    /\ UNCHANGED <<users, documents, files, now>>

(***************************************************************************)
(* Errors of an outbound axios call, and the message the catch blocks of   *)
(* /upload and /simplify-jargons derive from the error caught.             *)
(***************************************************************************)
Err(code, hasResponse, dataError) ==
    [code |-> code, hasResponse |-> hasResponse, dataError |-> dataError]

PlainError == Err("", FALSE, "")

AxiosErrors ==
    {Err("ECONNREFUSED", FALSE, ""),      \* the service is down
     Err("ECONNABORTED", FALSE, ""),      \* the timeout passed
     Err("ERR_BAD_RESPONSE", TRUE, "service says no"),
     Err("ERR_BAD_RESPONSE", TRUE, "")}   \* an error status without data.error

\* The errors the upload's classification call is tried with.
ClassifyErrors ==
    {e \in AxiosErrors : e.dataError # ""  \/ ~e.hasResponse}

ErrorMessage(error, generic, unnamed) ==
    IF error.code = "ECONNREFUSED"
    THEN "Model service is not available. Please try again later."
    ELSE IF error.hasResponse
    THEN (IF error.dataError = "" THEN unnamed ELSE error.dataError)
    ELSE generic

(***************************************************************************)
(* POST /simplify-jargons                                                  *)
(***************************************************************************)
Texts == {Undef, "whereas the party"}

Falsy(s) == s \in {Undef, ""}

StartSimplify(r) ==
    /\ CanStart(r)
    /\ \E hdr \in Headers, text \in Texts :
         LET entered(q) ==
               IF Falsy(text) THEN Respond([q EXCEPT !.text = text],
                                           Json(400, "No text provided"))
               ELSE Touch([q EXCEPT !.pc = "post", !.text = text], {"outbound"})
             p == Protected("simplify", hdr)
         IN  reqs' = [reqs EXCEPT ![r] = IF Rejected(p) THEN p ELSE entered(p)]
    /\ UNCHANGED <<users, documents, files, now>>

SimplifyMessage(error) ==
    ErrorMessage(error, "Jargon simplification failed", "Jargon simplification error")

\* await axios.post(..) returns or throws.
SimplifyPostDone(r) ==
    /\ Awaiting(r, "simplify", "post")
    /\ LET q == reqs[r]
       IN  \/ \E error \in AxiosErrors :
                reqs' = [reqs EXCEPT ![r] = Respond(q, Json(500, SimplifyMessage(error)))]
           \/ \E success \in BOOLEAN :
                reqs' = [reqs EXCEPT ![r] =
                   IF success THEN Respond(q, JsonData(200, "", {q.text}))
                   ELSE Respond(q, Json(500, SimplifyMessage(PlainError)))]
    /\ UNCHANGED <<users, documents, files, now>>

(***************************************************************************)
(* POST /upload: authMiddleware, upload.single('document'), the handler.   *)
(***************************************************************************)
FileSizeLimit == 10485760

UploadedFile(present, mimetype, size) ==
    [present |-> present, mimetype |-> mimetype, size |-> size]

NoFile == UploadedFile(FALSE, "", 0)

UploadedFiles ==
    {NoFile,
     UploadedFile(TRUE, "application/pdf", 1024),
     UploadedFile(TRUE, "text/plain", 1024),
     UploadedFile(TRUE, "application/pdf", FileSizeLimit + 1)}

\* A filter that lets every file through.
FileFilter_AcceptAll(file) == TRUE

\* multer's fileFilter: cb(null, true) or cb(new Error(..)).
FileFilter(file) == file.mimetype = "application/pdf"

\* multer's limits.fileSize.
OverLimit(file) == file.size > FileSizeLimit

(***************************************************************************)
(* The classification service's answer: response.data.  castable tells     *)
(* whether its values cast to the types of documentSchema (confidence a    *)
(* number, ...); hasAnalysis and hasFound tell whether jargon_analysis and *)
(* its jargons_found are there; found is jargons_found, term -> {meaning,  *)
(* occurrences, original_term}.                                            *)
(***************************************************************************)
Info(meaning, occurrences, original_term) ==
    [meaning |-> meaning, occurrences |-> occurrences, original_term |-> original_term]

ResponseData(success, classification, castable, hasAnalysis, hasFound, found) ==
    [success |-> success, classification |-> classification, castable |-> castable,
     hasAnalysis |-> hasAnalysis, hasFound |-> hasFound, found |-> found]

\* The example of the specification's success scenario.
NdaData ==
    ResponseData(TRUE, "NDA", TRUE, TRUE, TRUE,
                 ("indemnify" :> Info("compensate for harm", 2, Undef)))

\* An answer with confidence: "high".
UncastableData == ResponseData(TRUE, "NDA", FALSE, FALSE, FALSE, EmptyMap)

FailedData == ResponseData(FALSE, Undef, TRUE, FALSE, FALSE, EmptyMap)

ClassifyAnswers == {NdaData, UncastableData, FailedData}

\* The conversion without the default: originalTerm is info.original_term.
OrElse_NoDefault(a, b) == a

\* info.original_term || jargon
OrElse(a, b) == IF Falsy(a) THEN b ELSE a

\* The loop over Object.entries(jargons_found) filling jargonsFound.
ConvertJargons(found) ==
    [jargon \in DOMAIN found |->
        [meaning |-> found[jargon].meaning,
         occurrences |-> found[jargon].occurrences,
         originalTerm |-> OrElse(found[jargon].original_term, jargon)]]

\* The success branch's assignments to tempDocument.
Analyzed(q, data) ==
    [q EXCEPT !.payload = data,
              !.tmpStatus = "analyzed",
              !.tmpClassification = data.classification,
              !.tmpInvalid = ~data.castable,
              !.tmpJargons = IF data.hasAnalysis
                             THEN (IF data.hasFound THEN ConvertJargons(data.found)
                                   ELSE EmptyMap)
                             ELSE q.tmpJargons,
              !.pc = "save2"]

\* tempDocument.save(): the collection with the document written.
Saved(q) ==
    (q.tmpId :> DocRec(q.user, q.tmpStatus, q.tmpClassification, q.tmpJargons))
    @@ documents

\* The head of the catch block: tempDocument was assigned before anything
\* could throw, so its status is set and its save is awaited.  The try
\* block's response is out of scope.
Caught(q, error) ==
    [q EXCEPT !.err = error, !.payload = IdleReq.payload,
              !.tmpStatus = "error", !.pc = "saveError"]

UploadMessage(error) ==
    ErrorMessage(error, "Document processing failed", "Model processing error")

\* The request's body (file) is read by multer, after authMiddleware.
StartUpload(r) ==
    /\ CanStart(r)
    /\ \E hdr \in Headers, file \in UploadedFiles :
         LET entered(q) == Touch([q EXCEPT !.pc = "multer", !.file = file], {"file"})
             p == Protected("upload", hdr)
         IN  reqs' = [reqs EXCEPT ![r] = IF Rejected(p) THEN p ELSE entered(p)]
    /\ UNCHANGED <<users, documents, files, now>>

\* multer has read the body.  A file the filter rejects, or one over the
\* limit (multer removes what it wrote of it), goes to next(err), which no
\* middleware of the application handles.  Otherwise the handler runs up to
\* the first tempDocument.save().
UploadMulterDone(r) ==
    /\ Awaiting(r, "upload", "multer")
    /\ LET q == reqs[r]
       IN  IF q.file.present /\ (~FileFilter(q.file) \/ OverLimit(q.file))
           THEN /\ reqs' = [reqs EXCEPT ![r] = Respond(q, DefaultError)]
                /\ UNCHANGED files
           ELSE IF ~q.file.present
           THEN /\ reqs' = [reqs EXCEPT ![r] =
                              Respond(q, Json(400, "No document file uploaded"))]
                /\ UNCHANGED files
           ELSE /\ files' = files \cup {r}
                /\ reqs' = [reqs EXCEPT ![r] =
                              Touch([q EXCEPT !.tmpId = NewOid(r),
                                              !.tmpStatus = "processing", !.pc = "save1"],
                                    {"store"})]
    /\ UNCHANGED <<users, documents, now>>

\* tempDocument.save() returns, or throws: a ValidationError when a value
\* assigned to the document does not cast to the schema's type (and again at
\* every later save, the cast error staying with the document), or an error
\* of the store being out of reach.
SaveOutcomes(q) == {IF q.tmpInvalid THEN "invalid" ELSE "saved", "outage"}

SaveThrew(q, outcome) == [q EXCEPT !.outage = q.outage \/ outcome = "outage"]

\* fs.unlinkSync(req.file.path) throws (the file stays).
UnlinkThrew(q) == [q EXCEPT !.unlinkThrew = TRUE]

\* The first save returns (the record exists; the file is sent to the
\* classification service) or throws (the catch block's save is awaited).
UploadSave1Done(r) ==
    /\ Awaiting(r, "upload", "save1")
    /\ LET q == reqs[r]
       IN  \E outcome \in SaveOutcomes(q) :
              IF outcome = "saved"
              THEN /\ documents' = Saved(q)
                   /\ reqs' = [reqs EXCEPT ![r] =
                                 Touch([q EXCEPT !.pc = "classify"], {"outbound"})]
              ELSE /\ reqs' = [reqs EXCEPT ![r] =
                                 Caught(SaveThrew(q, outcome), PlainError)]
                   /\ UNCHANGED documents
    /\ UNCHANGED <<users, files, now>>

\* axios.post(modelApiUrl, ..) returns or throws.
UploadClassifyDone(r, answers) ==
    /\ Awaiting(r, "upload", "classify")
    /\ LET q == reqs[r]
       IN  \/ \E error \in ClassifyErrors :
                reqs' = [reqs EXCEPT ![r] = Caught(q, error)]
           \/ \E data \in answers :
                reqs' = [reqs EXCEPT ![r] =
                   IF data.success THEN Analyzed(q, data)
                   ELSE Caught(q, PlainError)]
    /\ UNCHANGED <<users, documents, files, now>>

\* The save of the analyzed document returns or throws; after it the
\* temporary file is unlinked (fs.unlinkSync may throw) and 200 is sent.
UploadSave2Done(r) ==
    /\ Awaiting(r, "upload", "save2")
    /\ LET q == reqs[r]
       IN  \E outcome \in SaveOutcomes(q) :
              IF outcome = "saved"
              THEN /\ documents' = Saved(q)
                   /\ \/ /\ files' = files \ {r}
                         /\ reqs' = [reqs EXCEPT ![r] =
                               Respond(q, JsonData(200,
                                       "Document uploaded and analyzed successfully",
                                       {q.tmpId}))]
                      \/ /\ reqs' = [reqs EXCEPT ![r] =
                               Caught(UnlinkThrew(q), Err("EPERM", FALSE, ""))]
                         /\ UNCHANGED files
              ELSE /\ reqs' = [reqs EXCEPT ![r] =
                                 Caught(SaveThrew(q, outcome), PlainError)]
                   /\ UNCHANGED <<documents, files>>
    /\ UNCHANGED <<users, now>>

\* The catch block's save returns or throws; after it the temporary file, if
\* it exists, is unlinked (which may throw) and 500 is sent.  What throws
\* inside the catch block is caught by nothing.
UploadSaveErrorDone(r) ==
    /\ Awaiting(r, "upload", "saveError")
    /\ LET q == reqs[r]
       IN  \E outcome \in SaveOutcomes(q) :
              IF outcome = "saved"
              THEN /\ documents' = Saved(q)
                   /\ IF r \in files
                      THEN \/ /\ files' = files \ {r}
                              /\ reqs' = [reqs EXCEPT ![r] =
                                    Respond(q, Json(500, UploadMessage(q.err)))]
                           \/ /\ \E e \in Escapes(UnlinkThrew(q)) :
                                    reqs' = [reqs EXCEPT ![r] = e]
                              /\ UNCHANGED files
                      ELSE /\ reqs' = [reqs EXCEPT ![r] =
                                    Respond(q, Json(500, UploadMessage(q.err)))]
                           /\ UNCHANGED files
              ELSE /\ \E e \in Escapes(SaveThrew(q, outcome)) :
                         reqs' = [reqs EXCEPT ![r] = e]
                   /\ UNCHANGED <<documents, files>>
    /\ UNCHANGED <<users, now>>

DocReqIds == 1 .. MaxDocReqs

NextDocs ==
    \/ \E r \in DocReqIds : StartProfile(r)
    \/ \E r \in DocReqIds : ProfileFindByIdDone(r)
    \/ \E r \in DocReqIds : StartListDocuments(r)
    \/ \E r \in DocReqIds : ListDocumentsFindDone(r)
    \/ \E r \in DocReqIds : StartGetDocument(r)
    \/ \E r \in DocReqIds : GetDocumentFindOneDone(r)
    \/ \E r \in DocReqIds : StartSimplify(r)
    \/ \E r \in DocReqIds : SimplifyPostDone(r)
    \/ \E r \in DocReqIds : StartUpload(r)
    \/ \E r \in DocReqIds : UploadMulterDone(r)
    \/ \E r \in DocReqIds : UploadSave1Done(r)
    \/ \E r \in DocReqIds : UploadClassifyDone(r, ClassifyAnswers)
    \/ \E r \in DocReqIds : UploadSave2Done(r)
    \/ \E r \in DocReqIds : UploadSaveErrorDone(r)

SpecDocs == Init /\ [][NextDocs]_vars

(***************************************************************************)
(* The upload pipeline alone, tried with every shape of jargon_analysis.   *)
(***************************************************************************)
Terms == {"indemnify", "tort"}

Infos ==
    {Info("compensate for harm", 2, original_term) :
        original_term \in {Undef, "", "Indemnification"}}

FoundMaps == UNION {[S -> Infos] : S \in SUBSET Terms}

JargonAnswers ==
    {ResponseData(TRUE, "NDA", TRUE, TRUE, TRUE, found) : found \in FoundMaps}
    \cup {ResponseData(TRUE, "NDA", TRUE, TRUE, FALSE, EmptyMap),
          ResponseData(TRUE, "Lease", TRUE, FALSE, FALSE, EmptyMap),
          UncastableData, FailedData}

JargonReqIds == 1 .. MaxJargonReqs

NextJargon ==
    \/ \E r \in JargonReqIds : StartUpload(r)
    \/ \E r \in JargonReqIds : UploadMulterDone(r)
    \/ \E r \in JargonReqIds : UploadSave1Done(r)
    \/ \E r \in JargonReqIds : UploadClassifyDone(r, JargonAnswers)
    \/ \E r \in JargonReqIds : UploadSave2Done(r)
    \/ \E r \in JargonReqIds : UploadSaveErrorDone(r)

SpecJargon == Init /\ [][NextJargon]_vars

(***************************************************************************)
(*                              The claims                                 *)
(***************************************************************************)
Finished(r, kind) == reqs[r].kind = kind /\ Done(r)

\* The document an upload request made, if it is in the store.
MadeDocument(r) == reqs[r].tmpId \in DOMAIN documents

\* C1: once the Document record exists, a finished upload request that did
\* not succeed leaves it persisted with status 'error', and no finished
\* upload request leaves its Document persisted with status 'processing'
\* (requests that found the store out of reach set aside).
C1_FailureLeavesError ==
    \A r \in ReqIds :
        Finished(r, "upload") /\ MadeDocument(r) /\ ~reqs[r].outage =>
            /\ documents[reqs[r].tmpId].status # "processing"
            /\ reqs[r].resp.status # 200 => documents[reqs[r].tmpId].status = "error"

\* C2: when an upload request that got a temporary file has finished, the
\* temporary file no longer exists (requests whose fs.unlinkSync itself
\* threw, or that found the store out of reach, set aside).
C2_TempFileRemoved ==
    \A r \in ReqIds :
        Finished(r, "upload") /\ ~reqs[r].unlinkThrew /\ ~reqs[r].outage =>
            r \notin files

\* C3: a signup whose email belongs to a stored User when the handler ends
\* without a store outage is answered 400 'User already exists' and creates
\* nothing, and there is at most one User record per email.
C3_DuplicateIs400 ==
    [][\A r \in ReqIds :
          /\ reqs[r].kind = "signup" /\ ~Done(r) /\ reqs'[r].pc = "done"
          /\ \E u \in users : u.email = reqs[r].email
          /\ reqs'[r].resp.message # "store error"
          => /\ reqs'[r].resp = Json(400, "User already exists")
             /\ users' = users
             /\ \A u, v \in users' : u.email = v.email => u = v]_vars

\* C4: GET /documents/:id with a user's token never returns a document
\* owned by another user and answers for it what it answers for an id no
\* document has (404 'Document not found', or 500 when the lookup itself
\* throws); GET /documents returns only documents of the token's user.
Authenticated(r) == reqs[r].user # 0

C4_OwnerOnly ==
    \A r \in ReqIds :
        /\ Finished(r, "get") /\ Authenticated(r) =>
              LET id == reqs[r].docParam
                  foreign == id \in DOMAIN documents
                             /\ documents[id].userId # reqs[r].user
                  missing == id \notin DOMAIN documents
              IN  /\ foreign => id \notin reqs[r].resp.data
                  /\ foreign \/ missing =>
                        reqs[r].resp \in {Json(404, "Document not found"),
                                          Json(500, "store error")}
        /\ Finished(r, "list") =>
              \A id \in reqs[r].resp.data :
                  id \in DOMAIN documents /\ documents[id].userId = reqs[r].user

C4_Witness ==
    \E r, u \in ReqIds :
        /\ Finished(u, "upload") /\ MadeDocument(u)
        /\ Finished(r, "get") /\ reqs[r].docParam = reqs[u].tmpId
        /\ reqs[r].user # reqs[u].user
        /\ reqs[r].resp = Json(404, "Document not found")

\* C5: on every protected route a request without a token, or with a token
\* that is no JWT, is signed with another key or has expired, is answered
\* 401 by authMiddleware, and nothing after authMiddleware runs for it: it
\* uses neither the store, nor a file, nor an outbound call.
ProtectedKinds == {"profile", "list", "get", "upload", "simplify"}

Unauthenticated(hdr) ==
    \/ ~hdr.present
    \/ Len(hdr.words) < 2
    \/ hdr.words[2].s # "jwt"
    \/ hdr.words[2].key # JWT_SECRET
    \/ hdr.words[2].exp <= now

C5_RejectedBeforeHandler ==
    \A r \in ReqIds :
        reqs[r].kind \in ProtectedKinds /\ Unauthenticated(reqs[r].hdr) =>
            /\ Done(r)
            /\ reqs[r].resp.status = 401 /\ reqs[r].resp.type = "json"
            /\ reqs[r].nresp = 1
            /\ reqs[r].touched = {}
            /\ reqs[r].tmpId = 0 /\ r \notin files

C5_Witness ==
    \E r, u \in ReqIds :
        /\ Finished(r, "upload") /\ reqs[r].hdr = Header(<<Bearer, Expired>>)
        /\ reqs[r].resp = Json(401, "Token is not valid")
        /\ Finished(u, "get") /\ reqs[u].hdr = Header(<<Bearer>>)
        /\ reqs[u].resp = Json(401, "No token provided, authorization denied")

\* C6: an upload whose file is not of type application/pdf never gets a
\* Document: its handler makes none and none is in the store.
C6_NonPdfMakesNoDocument ==
    \A r \in ReqIds :
        /\ reqs[r].kind = "upload"
        /\ reqs[r].file.present /\ reqs[r].file.mimetype # "application/pdf"
        => /\ reqs[r].tmpId = 0
           /\ NewOid(r) \notin DOMAIN documents
           /\ "store" \notin reqs[r].touched

C6_Witness ==
    \E r \in ReqIds :
        /\ Finished(r, "upload")
        /\ reqs[r].file.present /\ reqs[r].file.mimetype = "text/plain"
        /\ reqs[r].resp.status = 500

\* C7: every finished request has received exactly one response, and it is
\* a JSON response.
C7_OneJsonResponse ==
    \A r \in ReqIds :
        Done(r) => reqs[r].nresp = 1 /\ reqs[r].resp.type = "json"

\* C8 (its clause on transitions): a persisted status changes only from
\* 'processing', to 'analyzed' or to 'error'; once persisted as 'analyzed'
\* or 'error' it never changes.
C8_Lifecycle ==
    [][\A d \in DOMAIN documents :
          documents'[d].status # documents[d].status =>
             /\ documents[d].status = "processing"
             /\ documents'[d].status \in {"analyzed", "error"}]_vars

\* C9: whenever a login ends, it has issued a token only if a
\* stored user has the email and the password matches that user's hash, the
\* token carrying that user's id and being valid for one hour from now; in
\* every other case (the store answering) it has answered 400 'Invalid
\* credentials' and issued no token.
LoginEnds(r) == reqs[r].kind = "login" /\ ~Done(r) /\ reqs'[r].pc = "done"

Credentialed(r) ==
    {u \in users : u.email = reqs[r].email
                   /\ u.password = <<"bcrypt", reqs[r].password>>}

TokenOf(tok, u) ==
    /\ tok.id = u.id
    /\ tok.iat = now
    /\ tok.exp = tok.iat + 3600
    /\ LET hdr == Header(<<Bearer, tok>>)
       IN  /\ \A t \in {tok.iat, tok.iat + 3599} :
                 AuthMiddleware(hdr, t).next /\ AuthMiddleware(hdr, t).user = u.id
           /\ ~AuthMiddleware(hdr, tok.iat + 3600).next

IssuesOnlyToCredentialed(r) ==
    reqs'[r].resp.data # {} =>
        /\ reqs'[r].resp.status = 200
        /\ \E u \in Credentialed(r) : \A tok \in reqs'[r].resp.data : TokenOf(tok, u)

C9_Else400 ==
    [][\A r \in ReqIds :
          LoginEnds(r) =>
             /\ IssuesOnlyToCredentialed(r)
             /\ reqs'[r].resp.data = {} /\ reqs'[r].resp.message # "store error" =>
                   reqs'[r].resp = Json(400, "Invalid credentials")]_vars

\* C10 as stated: after a successful upload the saved jargonsFound has
\* exactly the terms of jargons_found, each with the response's meaning and
\* occurrences and with originalTerm the response's original_term when
\* present and the term when absent.
Successful(r) == Finished(r, "upload") /\ reqs[r].resp.status = 200

SavedJargons(r) == documents[reqs[r].tmpId].jargonsFound

SameEntries(r) ==
    LET found == reqs[r].payload.found
    IN  /\ DOMAIN SavedJargons(r) = DOMAIN found
        /\ \A k \in DOMAIN found :
              /\ SavedJargons(r)[k].meaning = found[k].meaning
              /\ SavedJargons(r)[k].occurrences = found[k].occurrences

C10_OriginalTermWhenPresent ==
    \A r \in ReqIds :
        Successful(r) /\ reqs[r].payload.hasAnalysis /\ reqs[r].payload.hasFound =>
            /\ SameEntries(r)
            /\ \A k \in DOMAIN reqs[r].payload.found :
                  SavedJargons(r)[k].originalTerm =
                     IF reqs[r].payload.found[k].original_term # Undef
                     THEN reqs[r].payload.found[k].original_term
                     ELSE k

\* C10 amended: ... with originalTerm the response's original_term when that
\* is a non-empty string, and the term when original_term is absent or
\* empty.
C10_OriginalTermWhenNonEmpty ==
    \A r \in ReqIds :
        Successful(r) /\ reqs[r].payload.hasAnalysis /\ reqs[r].payload.hasFound =>
            /\ SameEntries(r)
            /\ \A k \in DOMAIN reqs[r].payload.found :
                  SavedJargons(r)[k].originalTerm =
                     IF reqs[r].payload.found[k].original_term \notin {Undef, ""}
                     THEN reqs[r].payload.found[k].original_term
                     ELSE k

C10_Witness ==
    \E r \in ReqIds :
        /\ Successful(r)
        /\ DOMAIN reqs[r].payload.found = Terms
        /\ reqs[r].payload.found["indemnify"].original_term = ""
        /\ reqs[r].payload.found["tort"].original_term = "Indemnification"
        /\ SavedJargons(r)["indemnify"].originalTerm = "indemnify"

====
